---- MODULE Spec2Model ----
(***************************************************************************)
(* A model of Janeway's LogList (the line buffer behind the blessed output *)
(* box), of the throttled render it requests, of the setImmediate queue    *)
(* that carries deferred surface writes, of the scroll state that pushLine, *)
(* the mouse wheel and the page keys touch, of Janeway's formatting        *)
(* functions sanitize, esc, stripEsc and indent, of the parsing of stack   *)
(* frames, of start and print, and of the keys of the command line.        *)
(*                                                                         *)
(* Indices are the program's 0-based indices; TLA+ sequences are 1-based,  *)
(* so list[i] of the program is list[i+1] here.                            *)
(***************************************************************************)
EXTENDS Integers, Sequences, FiniteSets, TLC

\* ------------------------------------------------------------------ bounds

\* Number of LogLine objects ever created in a run.
MaxLines == 3

\* Visible rows of the output box (screen.height - 2 in the program).
BoxHeight == 2

\* The count of render() calls since the last redraw saturates here.
MaxBurst == 2

\* Number of LogLine objects created in a run of the fair specification.
MaxFairLines == 2

\* Longest string handed to sanitize.
MaxStr == 3

\* Longest colour code, in characters, and longest text handed to esc.
MaxCode == 3
MaxText == 4

\* Longest text, after its prefix, handed to indent.
MaxBody == 5

\* Longest free part of a stack line handed to extractLineInfo, and most
\* lines of a stack text handed to getCallerInfo.
MaxFrame == 4
MaxStack == 5

\* Most calls of start that reach the replacement of console.log, most
\* writes to the original console, and the number of nested calls the
\* call stack holds.
MaxStarts == 2
MaxOut == 3
MaxDepth == 3

\* Longest text typed into the cli, apart from the command cls, most
\* entries of the cli history, most lines one evaluated command prints, and
\* most callbacks of the enter key that wait in the setImmediate queue.
MaxCli == 1
MaxHistory == 2
MaxPrinted == 1
MaxCallbacks == 1

\* process.stdout.columns, the width of the terminal.
consoleWidth == 2

\* ------------------------------------------------------------------- state

VARIABLES
    list,             \* LogList.list: sequence of line ids
    index,            \* LogLine.index of every line (NoIndex: not set yet)
    selected,         \* LogLine.selected of every line
    children,         \* LogLine.children of every line
    selectedLine,     \* LogList.selectedLine (NoLine: null)
    box,              \* rows of the blessed box (its "fake" lines)
    childBase,        \* scroll position of the box: first visible row
    scrollDown,       \* Janeway#scrollDown
    scrolledManually, \* Janeway#scrolledManually
    immediates,       \* setImmediate queue: lines awaiting deferAndRenderLine
    timers,           \* pending timeouts of the throttled render
    nextId,           \* id the next created LogLine gets
    writes,           \* history: deferred writes executed, per line
    burst,            \* history: render() calls since the last redraw
    lastOp,           \* history: the last operation that had an effect
    input,            \* argument of the formatting function being applied
    output,           \* what the formatting function returned for it
    started,          \* the module variable started
    env,              \* process.stdout.isTTY and Blast.isNW
    logLists,         \* history: screens and LogLists that start created
    hijacks,          \* history: times start replaced console.log and its
                      \* kin, and the write functions of stdout and stderr
    readyOnce,        \* callbacks waiting for the ready event
    printDepth,       \* calls of print that have not returned
    consoleOut,       \* history: writes by the original console functions
    cli,              \* value of the cli textarea
    cli_history,      \* Janeway#cli_history, newest first
    cli_history_index,\* Janeway#cli_history_index
    cli_stash,        \* Janeway#cli_stash
    autocomplete_list \* Janeway#autocomplete_list: the popup is open

janewayVars == <<started, env, logLists, hijacks, readyOnce, printDepth,
                 consoleOut>>

cliVars == <<cli, cli_history, cli_history_index, cli_stash,
             autocomplete_list>>

vars == <<list, index, selected, children, selectedLine, box, childBase,
          scrollDown, scrolledManually, immediates, timers, nextId,
          writes, burst, lastOp, input, output, janewayVars, cliVars>>

NoLine == 0
NoIndex == -1
Lines == 1..MaxLines

\* The character U+23CE that sanitize puts in place of a line break.
MARKER == "RETURN"
NL == "\n"

\* ------------------------------------------------------ sequence helpers

Min(a, b) == IF a < b THEN a ELSE b
Max(a, b) == IF a > b THEN a ELSE b

Range(s) == {s[i] : i \in 1..Len(s)}

\* s without its element at 0-based position i (Array#splice(i, 1)); a
\* position at or past the end removes nothing.
Splice(s, i) ==
    IF i >= 0 /\ i < Len(s)
    THEN SubSeq(s, 1, i) \o SubSeq(s, i + 2, Len(s))
    ELSE s

\* s with x inserted at 0-based position i <= Len(s) + 1 (Array#insert):
\* the splice inside it clamps a position one past the end to the end.
ArrayInsert(s, i, x) ==
    LET k == Min(i, Len(s))
    IN  SubSeq(s, 1, k) \o <<x>> \o SubSeq(s, k + 1, Len(s))

Reverse(s) == [i \in 1..Len(s) |-> s[Len(s) + 1 - i]]

RECURSIVE SortAsc(_)
SortAsc(s) ==
    IF Len(s) = 0 THEN <<>>
    ELSE LET m == CHOOSE i \in 1..Len(s) : \A j \in 1..Len(s) : s[i] <= s[j]
         IN  <<s[m]>> \o SortAsc(SubSeq(s, 1, m - 1) \o SubSeq(s, m + 1, Len(s)))

\* ------------------------------------------------------------ line text

\* What line.toString() gives: every line has its own text, and the text of
\* an even line holds a line break.
Text(l) ==
    IF l % 2 = 0 THEN <<ToString(l), NL, ToString(l)>> ELSE <<ToString(l)>>

\* LogList#sanitize: str.replace(/\n/g, '⏎ ')
RECURSIVE sanitizeMarkerOnly(_)
sanitizeMarkerOnly(str) ==
    IF Len(str) = 0 THEN <<>>
    ELSE IF Head(str) = NL THEN <<MARKER>> \o sanitizeMarkerOnly(Tail(str))
         ELSE <<Head(str)>> \o sanitizeMarkerOnly(Tail(str))

RECURSIVE sanitize(_)
sanitize(str) ==
    IF Len(str) = 0 THEN <<>>
    ELSE IF Head(str) = NL THEN <<MARKER, " ">> \o sanitize(Tail(str))
         ELSE <<Head(str)>> \o sanitize(Tail(str))

\* ------------------------------------------------------ escape sequences

\* The character U+001B.
ESC == "ESC"

\* The characters \d matches that the strings here are made of.
Digits == {"0", "3"}

\* Length of the longest run of digits and semicolons at the start of s.
RECURSIVE CodeRun(_)
CodeRun(s) ==
    IF Len(s) > 0 /\ Head(s) \in Digits \cup {";"}
    THEN 1 + CodeRun(Tail(s)) ELSE 0

\* body matches (\d\;?)+ : digits, each followed by at most one semicolon.
IsCodeBody(body) ==
    /\ Len(body) > 0
    /\ body[1] \in Digits
    /\ \A i \in 1..Len(body) : body[i] \in Digits \cup {";"}
    /\ \A i \in 2..Len(body) : body[i] = ";" => body[i - 1] \in Digits

\* Length of the match of /\u001b\[(\d\;?)+m/ at the start of s, 0 when
\* there is none.
EscMatch(s) ==
    IF Len(s) >= 4 /\ s[1] = ESC /\ s[2] = "["
    THEN LET n == CodeRun(SubSeq(s, 3, Len(s)))
         IN  IF /\ IsCodeBody(SubSeq(s, 3, 2 + n))
                /\ Len(s) >= n + 3
                /\ s[n + 3] = "m"
             THEN n + 3 ELSE 0
    ELSE 0

\* Length of the match of /\u001b\[\d+m/ at the start of s.
EscMatchDigitsOnly(s) ==
    IF Len(s) >= 4 /\ s[1] = ESC /\ s[2] = "["
    THEN LET n == CodeRun(SubSeq(s, 3, Len(s)))
         IN  IF /\ n > 0
                /\ \A i \in 3..(2 + n) : s[i] \in Digits
                /\ Len(s) >= n + 3
                /\ s[n + 3] = "m"
             THEN n + 3 ELSE 0
    ELSE 0

\* Janeway#esc(code): the entry sequence of a code.
escCode(code) == <<ESC, "[">> \o code \o <<"m">>

\* Janeway#esc(code, str, endcode)
esc(code, str, endcode) == escCode(code) \o str \o escCode(endcode)

\* Janeway#stripEsc(str): str.replace(/\u001b\[(\d\;?)+m/g, '')
RECURSIVE stripEscDigitsOnly(_)
stripEscDigitsOnly(str) ==
    IF Len(str) = 0 THEN <<>>
    ELSE LET k == EscMatchDigitsOnly(str)
         IN  IF k > 0 THEN stripEscDigitsOnly(SubSeq(str, k + 1, Len(str)))
             ELSE <<Head(str)>> \o stripEscDigitsOnly(Tail(str))

RECURSIVE stripEsc(_)
stripEsc(str) ==
    IF Len(str) = 0 THEN <<>>
    ELSE LET k == EscMatch(str)
         IN  IF k > 0 THEN stripEsc(SubSeq(str, k + 1, Len(str)))
             ELSE <<Head(str)>> \o stripEsc(Tail(str))

\* ------------------------------------------------------- the blessed box

\* The rows a content has: content.split('\n') of the rows joined by '\n'.
RECURSIVE SplitRow(_, _)
SplitRow(row, acc) ==
    IF Len(row) = 0 THEN <<acc>>
    ELSE IF Head(row) = NL THEN <<acc>> \o SplitRow(Tail(row), <<>>)
         ELSE SplitRow(Tail(row), Append(acc, Head(row)))

RECURSIVE BoxReflow(_)
BoxReflow(rows) ==
    IF Len(rows) = 0 THEN <<>>
    ELSE SplitRow(Head(rows), <<>>) \o BoxReflow(Tail(rows))

\* box.setContent(rows.join('\n')): an empty content is one empty row.
BoxSetContent(rows) == IF Len(rows) = 0 THEN << <<>> >> ELSE BoxReflow(rows)

\* while (fake.length < i) fake.push('')
BoxPad(bx, i) ==
    IF Len(bx) < i THEN bx \o [j \in 1..(i - Len(bx)) |-> <<>>] ELSE bx

\* box.setLine(i, row)
BoxSetLine(bx, i, row) ==
    LET p == BoxPad(bx, Max(i, 0))
        k == Max(i, 0)
    IN  BoxSetContent(IF k < Len(p) THEN [p EXCEPT ![k + 1] = row]
                      ELSE Append(p, row))

\* box.insertLine(i, row)
BoxInsertLine(bx, i, row) ==
    LET k == Max(i, 0)
    IN  BoxSetContent(ArrayInsert(BoxPad(bx, k), k, row))

\* box.deleteLine(i): the row index is clamped into the rows the box has.
BoxDeleteLine(bx, i) ==
    LET k == Min(Max(i, 0), Len(bx) - 1)
    IN  BoxSetContent(Splice(bx, k))

\* box.getScrollPerc() of an alwaysScroll box.
BoxScrollPerc(bx, base) ==
    IF BoxHeight < Len(bx) THEN (base * 100) \div (Len(bx) - BoxHeight) ELSE 0

\* box.scroll(offset): the base moves and stays within the content.
BoxScroll(bx, base, offset) ==
    Min(Max(base + offset, 0), Max(Len(bx) - BoxHeight, 0))

\* ---------------------------------------------------------------- indent

\* multiply(' ', n): n spaces.
multiply(ch, n) == [j \in 1..n |-> ch]

\* line.substring(from) and line.substring(0, to), 0-based as in the code.
SubstringFrom(line, from) == SubSeq(line, Min(from, Len(line)) + 1, Len(line))
SubstringTo(line, to) == SubSeq(line, 1, Min(to, Len(line)))

\* The body of the loop of indent for one line; first is i == 0.
IndentLine(line, first, skipFirstLine, visibleCount, difference) ==
    LET skip     == first /\ skipFirstLine
        ln       == IF skip THEN line
                    ELSE multiply(" ", visibleCount) \o line
        maxWidth == IF skip THEN consoleWidth + difference ELSE consoleWidth
    IN  IF Len(stripEsc(ln)) > consoleWidth
        THEN SubstringTo(ln, maxWidth) \o <<NL>>
                \o multiply(" ", visibleCount) \o SubstringFrom(ln, maxWidth)
        ELSE ln

\* lines.join('\n')
RECURSIVE Join(_)
Join(lines) ==
    IF Len(lines) = 0 THEN <<>>
    ELSE IF Len(lines) = 1 THEN Head(lines)
         ELSE Head(lines) \o <<NL>> \o Join(Tail(lines))

\* Janeway#indent(text, skipText, skipFirstLine)
indent(text, skipText, skipFirstLine) ==
    LET lines        == SplitRow(text, <<>>)
        visibleCount == Len(stripEsc(skipText))
        difference   == Len(skipText) - visibleCount
    IN  Join([i \in 1..Len(lines) |->
                 IndentLine(lines[i], i = 1, skipFirstLine, visibleCount,
                            difference)])

\* indent reaches a call of multiply, a name init.js does not define.
IndentCallsMultiply(text, skipText, skipFirstLine) ==
    LET lines == SplitRow(text, <<>>)
    IN  \/ Len(lines) > 1
        \/ ~skipFirstLine
        \/ Len(stripEsc(lines[1])) > consoleWidth

\* ------------------------------------------------------- stack frames

\* The strings extractLineInfo puts where nothing was captured.
ANONYMOUS == <<"anonymous">>
UNKNOWN == <<"unknown">>

\* The name of an Error object.
ERROR == <<"Error">>

\* str.indexOf(pat): the 0-based place of the first occurrence, or -1.
indexOf(str, pat) ==
    LET hits == {i \in 0..(Len(str) - Len(pat)) :
                    SubSeq(str, i + 1, i + Len(pat)) = pat}
    IN  IF hits = {} THEN -1
        ELSE CHOOSE i \in hits : \A j \in hits : i <= j

\* The length of the longest run of digits of str that starts at place p
\* (1-based): what a greedy \d* takes there.
DigitRun(str, p) ==
    LET runs == {n \in 0..(Len(str) - p + 1) :
                    \A k \in p..(p + n - 1) : str[k] \in Digits}
    IN  CHOOSE n \in runs : \A m \in runs : m <= n

\* The part :(\d*):(\d*) of both patterns, matched at place p of str with
\* the first run of digits ending before place q.
ColonPairFrom(str, p, q) ==
    LET n2 == DigitRun(str, q + 1)
    IN  IF p <= Len(str) /\ str[p] = ":" /\ q <= Len(str) /\ str[q] = ":"
        THEN [ok   |-> TRUE,
              line |-> SubSeq(str, p + 1, q - 1),
              char |-> SubSeq(str, q + 1, q + n2),
              end  |-> q + n2]
        ELSE [ok |-> FALSE, line |-> <<>>, char |-> <<>>, end |-> 0]

\* The part :(\d*):(\d*) of both patterns, matched at place p of str. A
\* digit is no colon, so each \d* keeps its whole run.
ColonPair(str, p) == ColonPairFrom(str, p, p + 1 + DigitRun(str, p + 1))

\* A dot of a pattern takes every character but a line break.
NoBreak(str, from, to) == \A k \in from..to : str[k] # NL

\* The \) that closes the first pattern stands right after the place cp.
Closed(clean, cp) ==
    cp.ok /\ cp.end < Len(clean) /\ clean[cp.end + 1] = ")"

\* The ways /^ (.*?) \((.*?):(\d*):(\d*)\)/ matches clean: the first
\* group ends at place ij[1] and the second at place ij[2].
StrictEnds(clean) ==
    {ij \in (1..Len(clean)) \X (1..Len(clean)) :
        /\ clean[1] = " "
        /\ ij[1] + 2 <= ij[2]
        /\ clean[ij[1] + 1] = " "
        /\ clean[ij[1] + 2] = "("
        /\ NoBreak(clean, 2, ij[2])
        /\ Closed(clean, ColonPair(clean, ij[2] + 1))}

\* The match the engine takes among ends: each lazy group the shortest
\* the rest of the pattern allows, the first group first.
StrictPick(clean, ends) ==
    IF ends = {} THEN [ok |-> FALSE]
    ELSE LET ij == CHOOSE e \in ends :
                       \A f \in ends :
                           \/ e[1] < f[1]
                           \/ e[1] = f[1] /\ e[2] <= f[2]
             cp == ColonPair(clean, ij[2] + 1)
         IN  [ok   |-> TRUE,
              name |-> SubSeq(clean, 2, ij[1]),
              path |-> SubSeq(clean, ij[1] + 3, ij[2]),
              line |-> cp.line,
              char |-> cp.char]

\* /^ (.*?) \((.*?):(\d*):(\d*)\)/.exec(clean)
StrictExec(clean) == StrictPick(clean, StrictEnds(clean))

\* /(.*?):(\d*):(\d*)/.exec(clean): the pattern has no anchor, and its
\* first group takes whatever stands before the colons, so a match starts
\* at the start of clean and its first group is the shortest one.
LoosePick(clean, ends) ==
    IF ends = {} THEN [ok |-> FALSE]
    ELSE LET j  == CHOOSE e \in ends : \A f \in ends : e <= f
             cp == ColonPair(clean, j + 1)
         IN  [ok   |-> TRUE,
              path |-> SubSeq(clean, 1, j),
              line |-> cp.line,
              char |-> cp.char]

LooseExec(clean) ==
    LoosePick(clean, {j \in 0..Len(clean) :
                         NoBreak(clean, 1, j) /\ ColonPair(clean, j + 1).ok})

\* path.split('/').pop(): what follows the last slash.
LastSegment(path) ==
    LET slashes == {k \in 1..Len(path) : path[k] = "/"}
    IN  IF slashes = {} THEN path
        ELSE SubSeq(path, (CHOOSE k \in slashes : \A m \in slashes : m <= k) + 1,
                    Len(path))

LineInfo(name, path, line, char) ==
    [name |-> name, path |-> path, file |-> LastSegment(path),
     line |-> line, char |-> char]

\* Janeway#extractLineInfo(caller_line)
extractLineInfoLooseFirst(caller_line) ==
    LET idx   == indexOf(caller_line, <<"a", "t", " ">>)
        clean == SubstringFrom(caller_line, idx + 2)
        temp  == LooseExec(clean)
        res   == StrictExec(clean)
    IN  IF temp.ok
        THEN LineInfo(ANONYMOUS, temp.path, temp.line, temp.char)
        ELSE IF res.ok
             THEN LineInfo(res.name, res.path, res.line, res.char)
             ELSE LineInfo(ANONYMOUS, UNKNOWN, UNKNOWN, UNKNOWN)

extractLineInfo(caller_line) ==
    LET idx    == indexOf(caller_line, <<"a", "t", " ">>)
        clean  == SubstringFrom(caller_line, idx + 2)
        result == StrictExec(clean)
        temp   == LooseExec(clean)
    IN  IF result.ok
        THEN LineInfo(result.name, result.path, result.line, result.char)
        ELSE IF temp.ok
             THEN LineInfo(ANONYMOUS, temp.path, temp.line, temp.char)
             ELSE LineInfo(ANONYMOUS, UNKNOWN, UNKNOWN, UNKNOWN)

\* The first call frames print and its callers put on every stack.
SkippedFrames == 3

\* The line of the wanted level of the stack rows ar, or the last row when
\* that level is missing or empty.
CallerLine(ar, lvl) ==
    IF lvl < Len(ar) /\ Len(ar[lvl + 1]) > 0
    THEN ar[lvl + 1]
    ELSE ar[Len(ar)]

\* Every row but the first, parsed.
StackInfo(ar) == [i \in 1..(Len(ar) - 1) |-> extractLineInfo(ar[i + 1])]

\* The object getCallerInfo returns for the parsed caller line obj: the
\* name of the error takes the place of the name of the function.
CallerInfo(obj, err, stack) ==
    [type    |-> "callerInfo",
     name    |-> err.name, path |-> obj.path, file |-> obj.file,
     line    |-> obj.line, char |-> obj.char,
     text    |-> err.stack,
     stack   |-> stack,
     message |-> err.message]

\* Janeway#getCallerInfo(level, err) for an err that is an earlier result
\* (type callerInfo, with no level of its own) or carries a stack text;
\* level counts from 0.
getCallerInfo(level, err) ==
    IF err.type = "callerInfo"
    THEN err
    ELSE CallerInfo(extractLineInfo(
                        CallerLine(SplitRow(err.stack, <<>>),
                                   level + SkippedFrames)),
                    err,
                    StackInfo(SplitRow(err.stack, <<>>)))

\* ------------------------------------------------------- render throttle

\* Function.throttle: a call while a timeout is pending queues nothing.
Throttle(t) == IF t = 0 THEN 1 ELSE t

RenderUnthrottled(t) == t + 1

RenderDropped(t) == t

\* LogList#render, the throttled redraw of box and screen.
render(t) == Throttle(t)

\* One render() call on r = [t: pending timeouts, b: calls since the last
\* redraw]; the count of calls is history and saturates at MaxBurst.
RenderCall(r) == [t |-> render(r.t), b |-> Min(r.b + 1, MaxBurst)]

\* ------------------------------------------------------------- scrolling

\* Janeway#scroll(direction)
scroll(bx, base, direction) ==
    LET before == BoxScrollPerc(bx, base)
        moved  == BoxScroll(bx, base, direction)
        after  == BoxScrollPerc(bx, moved)
    IN  IF before = 0 /\ after = 0
        THEN BoxScroll(bx, moved, 0 - direction)
        ELSE moved

\* Lines the mouse wheel scrolls, and lines the page keys scroll.
WheelStep == 5
PageStep == 20

\* The 'mouse' handler of the output box for a wheel event: the box is
\* scrolled directly, the manual-scroll flag is set and is reset at 100%.
onMouse(bx, base, r, action) ==
    LET moved == BoxScroll(bx, base, IF action = "wheelup"
                                     THEN 0 - WheelStep ELSE WheelStep)
    IN  [base |-> moved,
         scrolledManually |-> BoxScrollPerc(bx, moved) # 100,
         r |-> RenderCall(r)]

\* The 'keypress' handler of the cli for pagedown and pageup.
onKeypress(bx, base, name) ==
    scroll(bx, base, IF name = "pagedown" THEN PageStep ELSE 0 - PageStep)

\* Janeway#scrollAlong(or_render); orRender is FALSE only for the literal
\* false. Gives the new scroll base and render state.
scrollAlongFlagOnly(bx, base, sd, sm, r, orRender) ==
    IF sd /\ ~sm
    THEN [base |-> scroll(bx, base, 1), r |-> RenderCall(r)]
    ELSE IF orRender
         THEN [base |-> base, r |-> RenderCall(r)]
         ELSE [base |-> base, r |-> r]

scrollAlongNoRender(bx, base, sd, sm, r, orRender) ==
    IF sd
    THEN [base |-> IF ~sm THEN scroll(bx, base, 1) ELSE base, r |-> r]
    ELSE IF orRender
         THEN [base |-> base, r |-> RenderCall(r)]
         ELSE [base |-> base, r |-> r]

scrollAlong(bx, base, sd, sm, r, orRender) ==
    IF sd
    THEN [base |-> IF ~sm THEN scroll(bx, base, 1) ELSE base,
          r    |-> RenderCall(r)]
    ELSE IF orRender
         THEN [base |-> base, r |-> RenderCall(r)]
         ELSE [base |-> base, r |-> r]

\* --------------------------------------------------------------- LogLine

\* LogLine#getAllIndices: the index of the line and of every line below it.
RECURSIVE getAllIndices(_, _, _)
getAllIndices(l, idx, ch) ==
    LET RECURSIVE Below(_)
        Below(cs) == IF Len(cs) = 0 THEN <<>>
                     ELSE getAllIndices(Head(cs), idx, ch) \o Below(Tail(cs))
    IN  <<idx[l]>> \o Below(ch[l])

\* The lines of the subtree of l.
RECURSIVE Subtree(_, _)
Subtree(l, ch) ==
    {l} \cup UNION {Subtree(ch[l][i], ch) : i \in 1..Len(ch[l])}

\* LogLine#select: the selection passes from the line that held it.
select(sel, cur, l) ==
    [selected |-> [m \in DOMAIN sel |->
                      IF m = l THEN TRUE
                      ELSE IF m = cur THEN FALSE ELSE sel[m]],
     selectedLine |-> l]

\* LogLine#unselect
unselect(sel, l) == [sel EXCEPT ![l] = FALSE]

\* A removed line is destroyed: no line keeps it as a child.
Detach(ch, lst) ==
    [l \in DOMAIN ch |-> SelectSeq(ch[l], LAMBDA c : c \in Range(lst))]

\* --------------------------------------------------------------- LogList

\* this.list.selectedLine: a property of the array, which nothing sets.
ListSelectedLine == NoLine

\* LogList#_setLine(index, line)
setLine(bx, i, l) == BoxSetLine(bx, i, sanitize(Text(l)))

\* LogList#_insertLine(index, line)
insertLine(bx, i, l) == BoxInsertLine(bx, i, sanitize(Text(l)))

\* LogList#reIndex(start); start is NoIndex when it is not a number.
reIndex(lst, idx, start) ==
    LET s == IF start = NoIndex THEN 0 ELSE start
    IN  [l \in DOMAIN idx |->
            IF \E i \in (s + 1)..Len(lst) : lst[i] = l
            THEN (CHOOSE i \in (s + 1)..Len(lst) :
                     lst[i] = l /\ \A j \in (i + 1)..Len(lst) : lst[j] # l) - 1
            ELSE idx[l]]

\* The loop of clearLines over the reversed indices.
RECURSIVE ClearLoop(_, _, _)
ClearLoop(lst, bx, indices) ==
    IF Len(indices) = 0 THEN [list |-> lst, box |-> bx]
    ELSE ClearLoop(Splice(lst, Head(indices)),
                   BoxDeleteLine(bx, Head(indices)),
                   Tail(indices))

\* LogList#clearLines(indices)
clearLinesAscending(lst, idx, bx, indices) ==
    LET sorted == SortAsc(indices)
        min    == IF Len(sorted) = 0 THEN NoIndex ELSE sorted[1]
        done   == ClearLoop(lst, bx, sorted)
    IN  [list  |-> done.list,
         box   |-> done.box,
         index |-> reIndex(done.list, idx, min)]

clearLinesNoReIndex(lst, idx, bx, indices) ==
    LET done == ClearLoop(lst, bx, Reverse(SortAsc(indices)))
    IN  [list |-> done.list, box |-> done.box, index |-> idx]

clearLines(lst, idx, bx, indices) ==
    LET sorted == SortAsc(indices)
        min    == IF Len(sorted) = 0 THEN NoIndex ELSE sorted[1]
        done   == ClearLoop(lst, bx, Reverse(sorted))
    IN  [list  |-> done.list,
         box   |-> done.box,
         index |-> reIndex(done.list, idx, min)]

\* LogList#insertAfter(line, afterIndex), afterIndex an index of the list.
insertAfterShiftAll(lst, idx, bx, l, afterIndex) ==
    LET i  == afterIndex + 1
        ls == ArrayInsert(lst, i, l)
    IN  [list  |-> ls,
         index |-> [m \in DOMAIN idx |->
                       IF m = l \/ (\E j \in (i + 2)..Len(ls) : ls[j] = m)
                       THEN (IF m = l THEN i ELSE idx[m]) + 1
                       ELSE idx[m]],
         box   |-> insertLine(bx, i, l)]

insertAfterAtEnd(lst, idx, bx, l, afterIndex) ==
    [list  |-> Append(lst, l),
     index |-> [idx EXCEPT ![l] = Len(lst)],
     box   |-> insertLine(bx, Len(lst), l)]

insertAfter(lst, idx, bx, l, afterIndex) ==
    LET i  == afterIndex + 1
        ls == ArrayInsert(lst, i, l)
    IN  [list  |-> ls,
         index |-> [m \in DOMAIN idx |->
                       IF m = l THEN i
                       ELSE IF \E j \in (i + 2)..Len(ls) : ls[j] = m
                            THEN idx[m] + 1
                            ELSE idx[m]],
         box   |-> insertLine(bx, i, l)]

\* LogList#removeLine(indexToRemove)
removeLineOnly(lst, idx, ch, bx, r, indexToRemove) ==
    IF indexToRemove >= 0 /\ indexToRemove < Len(lst)
    THEN LET c == clearLines(lst, idx, bx, <<indexToRemove>>)
         IN  [list |-> c.list, index |-> c.index, box |-> c.box,
              r |-> RenderCall(r)]
    ELSE [list |-> lst, index |-> idx, box |-> bx, r |-> r]

removeLineRenderAlways(lst, idx, ch, bx, r, indexToRemove) ==
    IF indexToRemove >= 0 /\ indexToRemove < Len(lst)
    THEN LET line == lst[indexToRemove + 1]
             c    == clearLines(lst, idx, bx, getAllIndices(line, idx, ch))
         IN  [list |-> c.list, index |-> c.index, box |-> c.box,
              r |-> RenderCall(r)]
    ELSE [list |-> lst, index |-> idx, box |-> bx, r |-> RenderCall(r)]

removeLine(lst, idx, ch, bx, r, indexToRemove) ==
    IF indexToRemove >= 0 /\ indexToRemove < Len(lst)
    THEN LET line == lst[indexToRemove + 1]
             c    == clearLines(lst, idx, bx, getAllIndices(line, idx, ch))
         IN  [list |-> c.list, index |-> c.index, box |-> c.box,
              r |-> RenderCall(r)]
    ELSE [list |-> lst, index |-> idx, box |-> bx, r |-> r]

\* LogList#clearScreen()
clearScreenForget(lst, sel, cur, bx, r) ==
    [list |-> <<>>, selected |-> sel, selectedLine |-> NoLine,
     box |-> BoxSetContent(<<>>), r |-> RenderCall(r)]

clearScreenGuarded(lst, sel, cur, bx, r) ==
    IF Len(lst) = 0
    THEN [list |-> lst, selected |-> sel, selectedLine |-> cur,
          box |-> bx, r |-> r]
    ELSE [list |-> <<>>, selected |-> sel, selectedLine |-> cur,
          box |-> BoxSetContent(<<>>), r |-> RenderCall(r)]

clearScreen(lst, sel, cur, bx, r) ==
    [list         |-> <<>>,
     selected     |-> IF ListSelectedLine # NoLine
                      THEN unselect(sel, ListSelectedLine) ELSE sel,
     selectedLine |-> cur,
     box          |-> BoxSetContent(<<>>),
     r            |-> RenderCall(r)]

\* LogList#click(lineIndex, x, y)
clickRenderAlways(lst, sel, cur, r, lineIndex) ==
    IF lineIndex >= 0 /\ lineIndex < Len(lst)
    THEN LET s == select(sel, cur, lst[lineIndex + 1])
         IN  [selected |-> s.selected, selectedLine |-> s.selectedLine,
              r |-> RenderCall(r)]
    ELSE [selected |-> sel, selectedLine |-> cur, r |-> RenderCall(r)]

click(lst, sel, cur, r, lineIndex) ==
    IF lineIndex >= 0 /\ lineIndex < Len(lst)
    THEN LET s == select(sel, cur, lst[lineIndex + 1])
         IN  [selected |-> s.selected, selectedLine |-> s.selectedLine,
              r |-> RenderCall(r)]
    ELSE [selected |-> sel, selectedLine |-> cur, r |-> r]

\* ------------------------------------------------------------ operations

Op(name, l, at) == [op |-> name, line |-> l, at |-> at]

R0 == [t |-> timers, b |-> burst]

\* What the constructor of Janeway sets, and an empty cli.
JanewayConstructed ==
    /\ cli = <<>>
    /\ cli_history = <<>>
    /\ cli_history_index = -1
    /\ cli_stash = <<>>
    /\ autocomplete_list = FALSE
    /\ readyOnce = 0
    /\ printDepth = 0
    /\ consoleOut = 0

\* Janeway after one call of start on a terminal, outside nw.js: the call
\* made one screen and one LogList and replaced the functions of the
\* console and of the streams once. No statement assigns started.
Started ==
    /\ JanewayConstructed
    /\ started = FALSE
    /\ env = [isTTY |-> TRUE, isNW |-> FALSE]
    /\ logLists = 1
    /\ hijacks = [console |-> 1, write |-> 1]

\* The LogList after its construction, in a started Janeway.
Constructed ==
    /\ list = <<>>
    /\ index = [l \in Lines |-> NoIndex]
    /\ selected = [l \in Lines |-> FALSE]
    /\ children = [l \in Lines |-> <<>>]
    /\ selectedLine = NoLine
    /\ box = << <<"Line 0">> >>
    /\ childBase = 0
    /\ scrollDown = TRUE
    /\ scrolledManually = FALSE
    /\ immediates = <<>>
    /\ timers = 0
    /\ nextId = 1
    /\ writes = [l \in Lines |-> 0]
    /\ burst = 0
    /\ lastOp = Op("init", NoLine, NoIndex)
    /\ Started

Init ==
    /\ Constructed
    /\ input = <<>>
    /\ output = <<>>

\* pushLine(line, defer) with a new line.
PushLine(defer) ==
    /\ nextId <= MaxLines
    /\ LET l   == nextId
           lst == Append(list, l)
           idx == [index EXCEPT ![l] = Len(lst) - 1]
           bx  == IF defer THEN box ELSE setLine(box, idx[l], l)
           sa  == IF ~defer /\ scrollDown
                  THEN scrollAlong(bx, childBase, scrollDown,
                                   scrolledManually, R0, FALSE)
                  ELSE [base |-> childBase, r |-> R0]
       IN  /\ list' = lst
           /\ index' = idx
           /\ box' = bx
           /\ childBase' = sa.base
           /\ timers' = sa.r.t
           /\ burst' = sa.r.b
           /\ immediates' = IF defer THEN Append(immediates, l) ELSE immediates
           /\ nextId' = nextId + 1
           /\ lastOp' = Op(IF defer THEN "pushLineDeferred" ELSE "pushLine",
                           l, idx[l])
    /\ UNCHANGED <<input, output, janewayVars, cliVars>>
    /\ UNCHANGED <<selected, children, selectedLine, scrollDown,
                   scrolledManually, writes>>

\* The setImmediate callback of a deferred pushLine.
DeferAndRenderLine ==
    /\ Len(immediates) > 0
    /\ LET l  == Head(immediates)
           bx == setLine(box, index[l], l)
           sa == scrollAlong(bx, childBase, scrollDown, scrolledManually,
                             R0, TRUE)
       IN  /\ box' = bx
           /\ childBase' = sa.base
           /\ timers' = sa.r.t
           /\ burst' = sa.r.b
           /\ immediates' = Tail(immediates)
           /\ writes' = [writes EXCEPT ![l] = @ + 1]
           /\ lastOp' = Op("deferAndRenderLine", l, index[l])
    /\ UNCHANGED <<input, output, janewayVars, cliVars>>
    /\ UNCHANGED <<list, index, selected, children, selectedLine, scrollDown,
                   scrolledManually, nextId>>

\* insertAfter(line, afterIndex) with a new line and an existing index.
InsertAfter(afterIndex) ==
    /\ nextId <= MaxLines
    /\ afterIndex \in 0..(Len(list) - 1)
    /\ LET l == nextId
           n == insertAfter(list, index, box, l, afterIndex)
       IN  /\ list' = n.list
           /\ index' = n.index
           /\ box' = n.box
           /\ nextId' = nextId + 1
           /\ lastOp' = Op("insertAfter", l, afterIndex)
    /\ UNCHANGED <<input, output, janewayVars, cliVars>>
    /\ UNCHANGED <<selected, children, selectedLine, childBase, scrollDown,
                   scrolledManually, immediates, timers, writes, burst>>

\* insertAfter(line, afterIndex) with a new line and an afterIndex at which
\* the list has no line: the one before the first or the one past the last.
InsertAfterInvalid(afterIndex) ==
    /\ nextId <= MaxLines
    /\ afterIndex \in {-1, Len(list)}
    /\ LET l == nextId
           n == insertAfter(list, index, box, l, afterIndex)
       IN  /\ list' = n.list
           /\ index' = n.index
           /\ box' = n.box
           /\ nextId' = nextId + 1
           /\ lastOp' = Op("insertAfterInvalid", l, afterIndex)
    /\ UNCHANGED <<input, output, janewayVars, cliVars>>
    /\ UNCHANGED <<selected, children, selectedLine, childBase, scrollDown,
                   scrolledManually, immediates, timers, writes, burst>>

\* A line of the list unfolds a nested value: a new child line is inserted
\* below it, after the line itself or after a line already below it.
InsertChild(p, afterIndex) ==
    /\ nextId <= MaxLines
    /\ p \in Range(list)
    /\ \E m \in Subtree(p, children) :
           m \in Range(list) /\ index[m] = afterIndex
    /\ afterIndex \in 0..(Len(list) - 1)
    /\ LET l == nextId
           n == insertAfter(list, index, box, l, afterIndex)
       IN  /\ list' = n.list
           /\ index' = n.index
           /\ box' = n.box
           /\ children' = [children EXCEPT ![p] = Append(@, l)]
           /\ nextId' = nextId + 1
           /\ lastOp' = Op("insertChild", l, afterIndex)
    /\ UNCHANGED <<input, output, janewayVars, cliVars>>
    /\ UNCHANGED <<selected, selectedLine, childBase, scrollDown,
                   scrolledManually, immediates, timers, writes, burst>>

\* removeLine(indexToRemove), for an index of the list or the one past it.
RemoveLine(indexToRemove) ==
    /\ LET n == removeLine(list, index, children, box, R0, indexToRemove)
       IN  /\ list' = n.list
           /\ index' = n.index
           /\ box' = n.box
           /\ children' = Detach(children, n.list)
           /\ timers' = n.r.t
           /\ burst' = n.r.b
           /\ lastOp' = IF indexToRemove < Len(list)
                        THEN Op("removeLine", list[indexToRemove + 1],
                                Len(list) - Len(n.list))
                        ELSE lastOp
    /\ UNCHANGED <<input, output, janewayVars, cliVars>>
    /\ UNCHANGED <<selected, selectedLine, childBase, scrollDown,
                   scrolledManually, immediates, nextId, writes>>

\* removeLine(indexToRemove) for an index at which the list has no line,
\* the one before the first or the one past the last; the call is kept in
\* the history.
RemoveMissing(indexToRemove) ==
    /\ indexToRemove \in {-1, Len(list)}
    /\ LET n == removeLine(list, index, children, box, R0, indexToRemove)
       IN  /\ list' = n.list
           /\ index' = n.index
           /\ box' = n.box
           /\ children' = Detach(children, n.list)
           /\ timers' = n.r.t
           /\ burst' = n.r.b
           /\ lastOp' = Op("removeLineMissing", NoLine, indexToRemove)
    /\ UNCHANGED <<input, output, janewayVars, cliVars>>
    /\ UNCHANGED <<selected, selectedLine, childBase, scrollDown,
                   scrolledManually, immediates, nextId, writes>>

\* The sequences of distinct indices of the list, in every order.
IndexSeqs ==
    {s \in UNION {[1..n -> 0..(Len(list) - 1)] : n \in 0..Len(list)} :
        \A i, j \in 1..Len(s) : i # j => s[i] # s[j]}

\* clearLines(indices) with distinct indices of the list.
ClearLines(indices) ==
    /\ LET n == clearLines(list, index, box, indices)
       IN  /\ list' = n.list
           /\ index' = n.index
           /\ box' = n.box
           /\ children' = Detach(children, n.list)
           /\ lastOp' = IF Len(indices) > 0
                        THEN Op("clearLines", NoLine, Len(indices))
                        ELSE lastOp
    /\ UNCHANGED <<input, output, janewayVars, cliVars>>
    /\ UNCHANGED <<selected, selectedLine, childBase, scrollDown,
                   scrolledManually, immediates, timers, nextId, writes,
                   burst>>

\* clearScreen(), the 'cls' command.
ClearScreen ==
    /\ LET n == clearScreen(list, selected, selectedLine, box, R0)
       IN  /\ list' = n.list
           /\ selected' = n.selected
           /\ selectedLine' = n.selectedLine
           /\ box' = n.box
           /\ children' = Detach(children, n.list)
           /\ timers' = n.r.t
           /\ burst' = n.r.b
           /\ lastOp' = Op("clearScreen", selectedLine, Len(list))
    /\ UNCHANGED <<input, output, janewayVars, cliVars>>
    /\ UNCHANGED <<index, childBase, scrollDown, scrolledManually,
                   immediates, nextId, writes>>

\* click(lineIndex, x, y), for an index of the list or the one past it.
Click(lineIndex) ==
    /\ LET n == click(list, selected, selectedLine, R0, lineIndex)
       IN  /\ selected' = n.selected
           /\ selectedLine' = n.selectedLine
           /\ timers' = n.r.t
           /\ burst' = n.r.b
           /\ lastOp' = IF lineIndex < Len(list)
                        THEN Op("click", list[lineIndex + 1], selectedLine)
                        ELSE lastOp
    /\ UNCHANGED <<input, output, janewayVars, cliVars>>
    /\ UNCHANGED <<list, index, children, box, childBase, scrollDown,
                   scrolledManually, immediates, nextId, writes>>

\* scrollAlong(or_render) called on its own, as the Enter handler does.
ScrollAlong(orRender) ==
    /\ LET sa == scrollAlong(box, childBase, scrollDown, scrolledManually,
                             R0, orRender)
       IN  /\ childBase' = sa.base
           /\ timers' = sa.r.t
           /\ burst' = sa.r.b
           /\ lastOp' = Op("scrollAlong", NoLine, IF orRender THEN 1 ELSE 0)
    /\ UNCHANGED <<input, output, janewayVars, cliVars>>
    /\ UNCHANGED <<list, index, selected, children, selectedLine, box,
                   scrollDown, scrolledManually, immediates, nextId, writes>>

\* A wheel event on the output box; the history keeps the scroll base the
\* event found.
OnMouse(action) ==
    /\ action \in {"wheelup", "wheeldown"}
    /\ LET n == onMouse(box, childBase, R0, action)
       IN  /\ childBase' = n.base
           /\ scrolledManually' = n.scrolledManually
           /\ timers' = n.r.t
           /\ burst' = n.r.b
           /\ lastOp' = Op(action, NoLine, childBase)
    /\ UNCHANGED <<input, output, janewayVars, cliVars>>
    /\ UNCHANGED <<list, index, selected, children, selectedLine, box,
                   scrollDown, immediates, nextId, writes>>

\* A pagedown or pageup key on the cli; the history keeps the scroll base
\* the key found.
OnKeypress(name) ==
    /\ name \in {"pagedown", "pageup"}
    /\ childBase' = onKeypress(box, childBase, name)
    /\ lastOp' = Op(name, NoLine, childBase)
    /\ UNCHANGED <<input, output, janewayVars, cliVars>>
    /\ UNCHANGED <<list, index, selected, children, selectedLine, box,
                   scrollDown, scrolledManually, immediates, timers, nextId,
                   writes, burst>>

\* A timeout of the throttled render fires: box.render(), screen.render().
Redraw ==
    /\ timers > 0
    /\ timers' = timers - 1
    /\ burst' = 0
    /\ lastOp' = Op("redraw", NoLine, burst)
    /\ UNCHANGED <<input, output, janewayVars, cliVars>>
    /\ UNCHANGED <<list, index, selected, children, selectedLine, box,
                   childBase, scrollDown, scrolledManually, immediates,
                   nextId, writes>>

Next ==
    \/ \E defer \in BOOLEAN : PushLine(defer)
    \/ DeferAndRenderLine
    \/ \E k \in 0..(MaxLines - 1) : InsertAfter(k)
    \/ \E p \in Lines, k \in 0..(MaxLines - 1) : InsertChild(p, k)
    \/ \E i \in 0..Len(list) : RemoveLine(i)
    \/ \E s \in IndexSeqs : ClearLines(s)
    \/ ClearScreen
    \/ \E i \in 0..Len(list) : Click(i)
    \/ Redraw

Spec == Init /\ [][Next]_vars

\* The operations that write the list, the indices and the box. click and
\* the redraw write none of these.
BufferNext ==
    \/ \E defer \in BOOLEAN : PushLine(defer)
    \/ DeferAndRenderLine
    \/ \E k \in 0..(MaxLines - 1) : InsertAfter(k)
    \/ \E p \in Lines, k \in 0..(MaxLines - 1) : InsertChild(p, k)
    \/ \E i \in 0..Len(list) : RemoveLine(i)
    \/ \E s \in IndexSeqs : ClearLines(s)
    \/ ClearScreen

BufferSpec == Init /\ [][BufferNext]_vars

\* The operations that write the selection or the membership of the list.
SelectNext ==
    \/ PushLine(FALSE)
    \/ \E k \in 0..(MaxLines - 1) : InsertAfter(k)
    \/ \E p \in Lines, k \in 0..(MaxLines - 1) : InsertChild(p, k)
    \/ \E i \in 0..Len(list) : RemoveLine(i)
    \/ ClearScreen
    \/ \E i \in 0..Len(list) : Click(i)

SelectSpec == Init /\ [][SelectNext]_vars

\* The operations that write flat lines, without children, and clear them.
ClearNext ==
    \/ \E defer \in BOOLEAN : PushLine(defer)
    \/ DeferAndRenderLine
    \/ \E k \in 0..(MaxLines - 1) : InsertAfter(k)
    \/ \E s \in IndexSeqs : ClearLines(s)
    \/ ClearScreen

ClearSpec == Init /\ [][ClearNext]_vars

\* The operations that place and remove lines, with insertAfter also called
\* for positions the list does not have.
MisuseNext ==
    \/ \E defer \in BOOLEAN : PushLine(defer)
    \/ DeferAndRenderLine
    \/ \E k \in 0..(MaxLines - 1) : InsertAfter(k)
    \/ \E k \in -1..MaxLines : InsertAfterInvalid(k)
    \/ \E i \in 0..Len(list) : RemoveLine(i)

MisuseSpec == Init /\ [][MisuseNext]_vars

\* Lines are written, selected, removed and redrawn, and removeLine and
\* clearScreen are also called where they find nothing to remove.
EdgeNext ==
    \/ PushLine(FALSE)
    \/ \E i \in 0..Len(list) : RemoveLine(i)
    \/ \E i \in -1..MaxLines : RemoveMissing(i)
    \/ ClearScreen
    \/ \E i \in 0..Len(list) : Click(i)
    \/ Redraw

EdgeSpec == Init /\ [][EdgeNext]_vars

\* The state after construction, with scrollDown as the embedding program
\* configured it.
ScrollInit ==
    /\ list = <<>>
    /\ index = [l \in Lines |-> NoIndex]
    /\ selected = [l \in Lines |-> FALSE]
    /\ children = [l \in Lines |-> <<>>]
    /\ selectedLine = NoLine
    /\ box = << <<"Line 0">> >>
    /\ childBase = 0
    /\ scrollDown \in BOOLEAN
    /\ scrolledManually = FALSE
    /\ immediates = <<>>
    /\ timers = 0
    /\ nextId = 1
    /\ writes = [l \in Lines |-> 0]
    /\ burst = 0
    /\ lastOp = Op("init", NoLine, NoIndex)
    /\ input = <<>>
    /\ output = <<>>
    /\ Started

\* Lines are written while the user scrolls with the wheel and the page
\* keys.
ScrollNext ==
    \/ \E defer \in BOOLEAN : PushLine(defer)
    \/ DeferAndRenderLine
    \/ \E f \in BOOLEAN : ScrollAlong(f)
    \/ \E a \in {"wheelup", "wheeldown"} : OnMouse(a)
    \/ \E k \in {"pagedown", "pageup"} : OnKeypress(k)
    \/ Redraw

ScrollSpec == ScrollInit /\ [][ScrollNext]_vars

\* The characters of the strings handed to sanitize: a letter, the line
\* break, the marker and the space.
SanitizeChars == {"a", NL, MARKER, " "}

SanitizeInputs == UNION {[1..n -> SanitizeChars] : n \in 0..MaxStr}

\* Any string is handed to sanitize.
SanitizeInit ==
    /\ Constructed
    /\ input \in SanitizeInputs
    /\ output = <<>>

\* sanitize(input) is called and returns.
Sanitize ==
    /\ lastOp.op = "init"
    /\ output' = sanitize(input)
    /\ lastOp' = Op("sanitize", NoLine, NoIndex)
    /\ UNCHANGED <<list, index, selected, children, selectedLine, box,
                   childBase, scrollDown, scrolledManually, immediates,
                   timers, nextId, writes, burst, input>>
    /\ UNCHANGED <<janewayVars, cliVars>>

SanitizeSpec == SanitizeInit /\ [][Sanitize]_vars

\* The numeric codes: numbers, and numbers joined by single semicolons.
Codes ==
    {c \in UNION {[1..n -> {"3", ";"}] : n \in 1..MaxCode} :
        IsCodeBody(c) /\ c[Len(c)] \in Digits}

\* The end code when none is given: endcode = 0.
DefaultEnd == <<"0">>

\* The texts handed to esc: any characters, those of escape sequences
\* among them.
Texts == UNION {[1..n -> {ESC, "[", "m", "3"}] : n \in 0..MaxText}

\* Any code, text and end code are handed to esc, the text as it is or
\* wrapped by an esc call of its own.
EscInit ==
    /\ Constructed
    /\ input \in [code : Codes, text : Texts,
                   endcode : Codes \cup {DefaultEnd}, nested : BOOLEAN]
    /\ output = <<>>

\* stripEsc(esc(code, text, endcode)) is computed.
StripEscOfEsc ==
    /\ lastOp.op = "init"
    /\ output' = stripEsc(esc(input.code,
                              IF input.nested
                              THEN esc(input.endcode, input.text, DefaultEnd)
                              ELSE input.text,
                              input.endcode))
    /\ lastOp' = Op("stripEsc", NoLine, NoIndex)
    /\ UNCHANGED <<list, index, selected, children, selectedLine, box,
                   childBase, scrollDown, scrolledManually, immediates,
                   timers, nextId, writes, burst, input>>
    /\ UNCHANGED <<janewayVars, cliVars>>

EscSpec == EscInit /\ [][StripEscOfEsc]_vars

\* The prefixes handed to indent: none, a plain one and a coloured one.
Prefixes == {<<>>, <<"p">>, esc(<<"3">>, <<"p">>, DefaultEnd)}

Bodies == UNION {[1..n -> {"a", NL}] : n \in 0..MaxBody}

\* print hands indent an output that starts with the prefix, stripped of
\* its colours when the terminal has none; multiply is a name another
\* script defined, or is not defined.
IndentInit ==
    /\ Constructed
    /\ input \in [skipText : Prefixes, body : Bodies,
                   skipFirstLine : BOOLEAN, colours : BOOLEAN,
                   multiply : BOOLEAN]
    /\ output = <<>>

\* The text print hands to indent.
IndentText ==
    (IF input.colours THEN input.skipText ELSE stripEsc(input.skipText))
        \o input.body

\* indent(text, skipText, skipFirstLine) is called; it returns its rows or
\* throws a ReferenceError at multiply.
Indent ==
    /\ lastOp.op = "init"
    /\ output' =
          IF ~input.multiply
                /\ IndentCallsMultiply(IndentText, input.skipText,
                                       input.skipFirstLine)
          THEN [thrown |-> TRUE, rows |-> <<>>]
          ELSE [thrown |-> FALSE,
                rows   |-> SplitRow(indent(IndentText, input.skipText,
                                           input.skipFirstLine), <<>>)]
    /\ lastOp' = Op("indent", NoLine, NoIndex)
    /\ UNCHANGED <<list, index, selected, children, selectedLine, box,
                   childBase, scrollDown, scrolledManually, immediates,
                   timers, nextId, writes, burst, input>>
    /\ UNCHANGED <<janewayVars, cliVars>>

IndentSpec == IndentInit /\ [][Indent]_vars

\* The characters of the free part of a stack line: the ones the patterns
\* name, a digit, and the slash that separates the parts of a path.
FrameChars == {" ", "(", ")", ":", "3", "/"}

\* A stack line: with or without the word at, a free part, and with or
\* without a place (line and column), closed by a parenthesis or not.
FrameLeads == {<<>>, <<"a", "t">>}
FrameTails == {<<>>, <<":", "3", ":", "3">>, <<":", "3", ":", "3", ")">>}

FrameLines ==
    {lead \o free \o tail :
        lead \in FrameLeads,
        free \in UNION {[1..n -> FrameChars] : n \in 0..MaxFrame},
        tail \in FrameTails}

\* The lines of a stack text: an empty one, a frame of a named function, a
\* frame of an anonymous function, and a line that holds no place.
StackLines ==
    {<<>>,
     <<" ", "a", "t", " ", "f", " ", "(", "/", "f", ":", "3", ":", "0", ")">>,
     <<" ", "a", "t", " ", "/", "f", ":", "3", ":", "0">>,
     <<"E">>}

StackTexts ==
    {Join(lines) : lines \in UNION {[1..n -> StackLines] : n \in 0..MaxStack}}

\* A stack line is handed to extractLineInfo, or a stack text and the
\* level of print's caller to getCallerInfo.
StackInit ==
    /\ Constructed
    /\ input \in [kind : {"line"}, caller_line : FrameLines]
                 \cup [kind : {"stack"}, level : 0..1,
                       err : [type : {"error"}, stack : StackTexts,
                              name : {ERROR}, message : {<<>>}]]
    /\ output = <<>>

\* extractLineInfo(caller_line) is called.
ExtractLineInfo ==
    /\ lastOp.op = "init"
    /\ input.kind = "line"
    /\ output' = extractLineInfo(input.caller_line)
    /\ lastOp' = Op("extractLineInfo", NoLine, NoIndex)
    /\ UNCHANGED <<list, index, selected, children, selectedLine, box,
                   childBase, scrollDown, scrolledManually, immediates,
                   timers, nextId, writes, burst, input>>
    /\ UNCHANGED <<janewayVars, cliVars>>

\* getCallerInfo(level, err) is called with an error that carries a stack.
GetCallerInfo ==
    /\ lastOp.op = "init"
    /\ input.kind = "stack"
    /\ output' = getCallerInfo(input.level, input.err)
    /\ lastOp' = Op("getCallerInfo", NoLine, NoIndex)
    /\ UNCHANGED <<list, index, selected, children, selectedLine, box,
                   childBase, scrollDown, scrolledManually, immediates,
                   timers, nextId, writes, burst, input>>
    /\ UNCHANGED <<janewayVars, cliVars>>

\* getCallerInfo(level, err) is called with the result of an earlier call.
GetCallerInfoAgain ==
    /\ lastOp.op = "getCallerInfo"
    /\ output' = getCallerInfo(input.level, output)
    /\ lastOp' = Op("getCallerInfoAgain", NoLine, NoIndex)
    /\ UNCHANGED <<list, index, selected, children, selectedLine, box,
                   childBase, scrollDown, scrolledManually, immediates,
                   timers, nextId, writes, burst, input>>
    /\ UNCHANGED <<janewayVars, cliVars>>

StackNext ==
    \/ ExtractLineInfo
    \/ GetCallerInfo
    \/ GetCallerInfoAgain

StackSpec == StackInit /\ [][StackNext]_vars

\* The module as it is loaded: start has not been called, on a terminal or
\* not, under nw.js or not. The variables of the LogList hold what its
\* constructor will set.
ProcessInit ==
    /\ list = <<>>
    /\ index = [l \in Lines |-> NoIndex]
    /\ selected = [l \in Lines |-> FALSE]
    /\ children = [l \in Lines |-> <<>>]
    /\ selectedLine = NoLine
    /\ box = << <<"Line 0">> >>
    /\ childBase = 0
    /\ scrollDown = TRUE
    /\ scrolledManually = FALSE
    /\ immediates = <<>>
    /\ timers = 0
    /\ nextId = 1
    /\ writes = [l \in Lines |-> 0]
    /\ burst = 0
    /\ lastOp = Op("init", NoLine, NoIndex)
    /\ input = <<>>
    /\ output = <<>>
    /\ JanewayConstructed
    /\ started = FALSE
    /\ env \in [isTTY : BOOLEAN, isNW : BOOLEAN]
    /\ logLists = 0
    /\ hijacks = [console |-> 0, write |-> 0]

\* Janeway#start(callback), called while no print is running and no
\* deferred write is pending; callback tells whether a function was passed.
\* The history keeps the branch the call took.
Start(callback) ==
    /\ printDepth = 0
    /\ Len(immediates) = 0
    /\ hijacks.console < MaxStarts
    /\ consoleOut < MaxOut
    /\ IF started
       THEN \* console.error('Can not start Janeway twice!') and
            \* that.once('ready', callback)
            /\ readyOnce' = readyOnce + (IF callback THEN 1 ELSE 0)
            /\ consoleOut' = consoleOut + (IF hijacks.console = 0 THEN 1 ELSE 0)
            /\ lastOp' = Op("startTwice", NoLine, NoIndex)
            /\ UNCHANGED <<list, selectedLine, box, childBase, logLists,
                           hijacks>>
       ELSE IF ~env.isTTY
       THEN \* callback(new Error(...)) and console.error(...)
            /\ consoleOut' = consoleOut + 1
            /\ lastOp' = Op("startNoTTY", NoLine, NoIndex)
            /\ UNCHANGED <<list, selectedLine, box, childBase, logLists,
                           hijacks, readyOnce>>
       ELSE IF env.isNW
       THEN \* console.log and its kin are replaced, callback(new Error(...))
            /\ hijacks' = [hijacks EXCEPT !.console = @ + 1]
            /\ lastOp' = Op("startNW", NoLine, NoIndex)
            /\ UNCHANGED <<list, selectedLine, box, childBase, logLists,
                           readyOnce, consoleOut>>
       ELSE \* a screen and a LogList are made, the console and the streams
            \* are replaced, and screen.render() emits ready
            /\ logLists' = logLists + 1
            /\ list' = <<>>
            /\ selectedLine' = NoLine
            /\ box' = << <<"Line 0">> >>
            /\ childBase' = 0
            /\ hijacks' = [console |-> hijacks.console + 1,
                           write   |-> hijacks.write + 1]
            /\ readyOnce' = 0
            /\ lastOp' = Op("start", NoLine, NoIndex)
            /\ UNCHANGED consoleOut
    /\ UNCHANGED <<index, selected, children, scrollDown, scrolledManually,
                   immediates, timers, nextId, writes, burst, input, output,
                   started, env, printDepth, cliVars>>

\* Janeway#print(type, args, options) called by the program, directly or
\* through a replaced console function, while no print is running. thrown
\* tells whether indent throws at multiply. The history keeps the number of
\* outputs the call made before it returned.
CallPrint(thrown) ==
    /\ printDepth = 0
    /\ IF logLists > 0
       THEN \* logList.consoleLog(args, type, options): pushLine(line, true)
            /\ ~thrown
            /\ nextId <= MaxLines
            /\ list' = Append(list, nextId)
            /\ index' = [index EXCEPT ![nextId] = Len(list)]
            /\ immediates' = Append(immediates, nextId)
            /\ nextId' = nextId + 1
            /\ lastOp' = Op("print", nextId, 1)
            /\ UNCHANGED <<printDepth, consoleOut>>
       ELSE IF hijacks.console = 0
       THEN \* console.log(err) when indent threw, and console.log(output)
            /\ consoleOut + (IF thrown THEN 2 ELSE 1) <= MaxOut
            /\ consoleOut' = consoleOut + (IF thrown THEN 2 ELSE 1)
            /\ lastOp' = Op(IF thrown THEN "printThrown" ELSE "print",
                            NoLine, IF thrown THEN 2 ELSE 1)
            /\ UNCHANGED <<list, index, immediates, nextId, printDepth>>
       ELSE \* console.log is the function start put there: it calls print
            /\ printDepth' = 1
            /\ lastOp' = Op("printCallsPrint", NoLine, 0)
            /\ UNCHANGED <<list, index, immediates, nextId, consoleOut>>
    /\ UNCHANGED <<selected, children, selectedLine, box, childBase,
                   scrollDown, scrolledManually, timers, writes, burst,
                   input, output, started, env, logLists, hijacks, readyOnce,
                   cliVars>>

\* The print that a replaced console.log called from within print. Nothing
\* made a LogList in between, so it reaches console.log as its caller did,
\* until the call stack is full and a RangeError ends every call.
CallPrintAgain ==
    /\ printDepth >= 1
    /\ IF logLists > 0
       THEN /\ nextId <= MaxLines
            /\ list' = Append(list, nextId)
            /\ index' = [index EXCEPT ![nextId] = Len(list)]
            /\ immediates' = Append(immediates, nextId)
            /\ nextId' = nextId + 1
            /\ printDepth' = 0
            /\ lastOp' = Op("print", nextId, 1)
            /\ UNCHANGED consoleOut
       ELSE IF hijacks.console = 0
       THEN /\ consoleOut < MaxOut
            /\ consoleOut' = consoleOut + 1
            /\ printDepth' = 0
            /\ lastOp' = Op("print", NoLine, 1)
            /\ UNCHANGED <<list, index, immediates, nextId>>
       ELSE /\ printDepth' = IF printDepth < MaxDepth THEN printDepth + 1
                             ELSE 0
            /\ lastOp' = IF printDepth < MaxDepth
                         THEN Op("printCallsPrint", NoLine, 0)
                         ELSE Op("printOverflow", NoLine, 0)
            /\ UNCHANGED <<list, index, immediates, nextId, consoleOut>>
    /\ UNCHANGED <<selected, children, selectedLine, box, childBase,
                   scrollDown, scrolledManually, timers, writes, burst,
                   input, output, started, env, logLists, hijacks, readyOnce,
                   cliVars>>

\* The program starts Janeway and prints; deferred writes and redraws run
\* between its calls.
ProcessNext ==
    \/ \E callback \in BOOLEAN : Start(callback)
    \/ \E thrown \in BOOLEAN : CallPrint(thrown)
    \/ CallPrintAgain
    \/ printDepth = 0 /\ DeferAndRenderLine
    \/ printDepth = 0 /\ Redraw

ProcessSpec == ProcessInit /\ [][ProcessNext]_vars

\* ------------------------------------------------------------- the cli

\* str.trim(): the spaces at both ends are dropped.
RECURSIVE TrimLeft(_)
TrimLeft(str) ==
    IF Len(str) > 0 /\ Head(str) = " " THEN TrimLeft(Tail(str)) ELSE str

Trim(str) == Reverse(TrimLeft(Reverse(TrimLeft(str))))

CLS == <<"c", "l", "s">>

\* The texts the cli holds: short ones of letters and spaces, and the
\* command cls. The command exit ends the process and is not typed.
CliTexts == UNION {[1..n -> {"a", " "}] : n \in 0..MaxCli} \cup {CLS}

\* The entries of the setImmediate queue that are not lines: the callback
\* of the command cls and the callback of an evaluated command.
ClsCallback == -1
EnterCallback == -2

\* A key that changes the text (a character, backspace, tab, a dot): the
\* textarea holds value afterwards, and autocomplete opens the popup, when
\* value has more than spaces and some name of the global object matches,
\* or closes it.
TypeKey(value, popup) ==
    /\ value \in CliTexts
    /\ popup => Trim(value) # <<>>
    /\ cli' = value
    /\ autocomplete_list' = popup
    /\ lastOp' = Op("key", NoLine, NoIndex)
    /\ UNCHANGED <<list, index, selected, children, selectedLine, box,
                   childBase, scrollDown, scrolledManually, immediates,
                   timers, nextId, writes, burst, input, output,
                   janewayVars, cli_history, cli_history_index, cli_stash>>

\* A key with a code, or escape: up and down move in the popup when it is
\* open and through the cli history otherwise; escape closes the popup. The
\* history keeps, while up and down follow each other, the text the cli held
\* when cli_history_index was last -1.
CodeKey(name) ==
    /\ name \in {"up", "down", "escape"}
    /\ LET dir == IF name = "up" THEN 1 ELSE -1
           id  == cli_history_index + dir
           cmd == cli
           stash == IF cli_history_index = -1 /\ cmd # <<>>
                    THEN cmd ELSE cli_stash
           t   == IF cli_history_index = -1
                  THEN [known |-> TRUE, t |-> cli]
                  ELSE IF lastOp.op \in {"up", "down"} THEN lastOp.at
                       ELSE [known |-> FALSE, t |-> <<>>]
       IN  IF autocomplete_list
           THEN /\ autocomplete_list' = (name # "escape")
                /\ lastOp' = Op(name, NoLine, t)
                /\ UNCHANGED <<cli, cli_history_index, cli_stash>>
           ELSE IF name = "escape"
           THEN /\ lastOp' = Op(name, NoLine, t)
                /\ UNCHANGED <<cli, cli_history_index, cli_stash,
                               autocomplete_list>>
           ELSE /\ cli_stash' = stash
                /\ IF id = -1
                   THEN /\ cli_history_index' = -1
                        /\ cli' = stash
                   ELSE IF id >= 0 /\ id < Len(cli_history)
                   THEN /\ cli_history_index' = id
                        /\ cli' = cli_history[id + 1]
                   ELSE UNCHANGED <<cli, cli_history_index>>
                /\ lastOp' = Op(name, NoLine, t)
                /\ UNCHANGED autocomplete_list
    /\ UNCHANGED <<list, index, selected, children, selectedLine, box,
                   childBase, scrollDown, scrolledManually, immediates,
                   timers, nextId, writes, burst, input, output,
                   janewayVars, cli_history>>

\* The callbacks of the enter key that wait in the setImmediate queue.
CliCallbacks ==
    Cardinality({k \in 1..Len(immediates) : immediates[k] \notin Lines})

\* The enter key. With the popup open it puts the selected item into the
\* cli. Otherwise the trimmed text is the command: an empty one does
\* nothing, cls clears the screen, and any other is written as a line and
\* evaluated, and its result, or the error it threw, is inserted after that
\* line. The evaluated command prints `printed` lines on its way. The
\* history keeps the line of the command and the line of the result.
EnterKey(item, printed, throws) ==
    /\ LET cmd     == Trim(cli)
           unshift == Len(cli_history) = 0 \/ cmd # cli_history[1]
           history == IF unshift THEN <<cmd>> \o cli_history ELSE cli_history
       IN  IF autocomplete_list
           THEN \* selectAutocomplete()
                /\ item \in CliTexts /\ Trim(item) # <<>>
                /\ printed = 0 /\ ~throws
                /\ cli' = item
                /\ autocomplete_list' = FALSE
                /\ lastOp' = Op("enterAutocomplete", NoLine, NoIndex)
                /\ UNCHANGED <<list, index, selected, selectedLine, children,
                               box, childBase, immediates, timers, burst,
                               nextId, cli_history, cli_history_index,
                               cli_stash>>
           ELSE /\ item = <<>>
                /\ Trim(cli) # <<>> => CliCallbacks < MaxCallbacks
                /\ cli_history_index' = -1
                /\ cli_stash' = <<>>
                /\ UNCHANGED autocomplete_list
                /\ IF cmd = <<>>
                   THEN /\ printed = 0 /\ ~throws
                        /\ lastOp' = Op("enterEmpty", NoLine, NoIndex)
                        /\ UNCHANGED <<list, index, selected, selectedLine,
                                       children, box, childBase, immediates,
                                       timers, burst, nextId, cli, cli_history>>
                   ELSE IF cmd = CLS
                   THEN /\ printed = 0 /\ ~throws
                        /\ unshift => Len(cli_history) < MaxHistory
                        /\ cli' = <<>>
                        /\ cli_history' = history
                        /\ LET n == clearScreen(list, selected, selectedLine,
                                                box, R0)
                           IN  /\ list' = n.list
                               /\ selected' = n.selected
                               /\ selectedLine' = n.selectedLine
                               /\ box' = n.box
                               /\ children' = Detach(children, n.list)
                               /\ timers' = n.r.t
                               /\ burst' = n.r.b
                        /\ immediates' = Append(immediates, ClsCallback)
                        /\ lastOp' = Op("enterCls", NoLine, NoIndex)
                        /\ UNCHANGED <<index, childBase, nextId>>
                   ELSE /\ unshift => Len(cli_history) < MaxHistory
                        /\ nextId + 1 + printed <= MaxLines
                        /\ cli' = <<>>
                        /\ cli_history' = history
                        /\ LET commandLine == nextId
                               resultLine  == nextId + 1 + printed
                               \* logList.pushLine(commandLine)
                               lst1 == Append(list, commandLine)
                               idx1 == [index EXCEPT ![commandLine] = Len(list)]
                               bx1  == setLine(box, idx1[commandLine],
                                               commandLine)
                               sa   == IF scrollDown
                                       THEN scrollAlong(bx1, childBase,
                                                scrollDown, scrolledManually,
                                                R0, FALSE)
                                       ELSE [base |-> childBase, r |-> R0]
                               \* eval(cmd): each print ends in
                               \* pushLine(line, true)
                               ps   == [k \in 1..printed |-> nextId + k]
                               lst2 == lst1 \o ps
                               idx2 == [l \in Lines |->
                                           IF l \in Range(ps)
                                           THEN Len(lst1) + (l - nextId) - 1
                                           ELSE idx1[l]]
                               \* logList.insertAfter(line, commandLine.index)
                               n    == insertAfter(lst2, idx2, bx1, resultLine,
                                                   idx2[commandLine])
                           IN  /\ list' = n.list
                               /\ index' = n.index
                               /\ box' = n.box
                               /\ childBase' = sa.base
                               /\ timers' = sa.r.t
                               /\ burst' = sa.r.b
                               /\ immediates' =
                                     immediates \o ps \o <<EnterCallback>>
                               /\ nextId' = nextId + 2 + printed
                               /\ lastOp' = Op("enter", commandLine, resultLine)
                        /\ UNCHANGED <<selected, selectedLine, children>>
    /\ UNCHANGED <<scrollDown, scrolledManually, writes, input, output,
                   janewayVars>>

\* The callback the enter key handed to setImmediate: the cli is cleared
\* and rendered, and after an evaluated command scrollAlong() is called.
RunCliCallback ==
    /\ Len(immediates) > 0
    /\ Head(immediates) \in {ClsCallback, EnterCallback}
    /\ LET sa == IF Head(immediates) = EnterCallback
                 THEN scrollAlong(box, childBase, scrollDown,
                                  scrolledManually, R0, TRUE)
                 ELSE [base |-> childBase, r |-> R0]
       IN  /\ childBase' = sa.base
           /\ timers' = sa.r.t
           /\ burst' = sa.r.b
    /\ cli' = <<>>
    /\ immediates' = Tail(immediates)
    /\ lastOp' = Op("cliCallback", NoLine, NoIndex)
    /\ UNCHANGED <<list, index, selected, children, selectedLine, box,
                   scrollDown, scrolledManually, nextId, writes, input,
                   output, janewayVars, cli_history, cli_history_index,
                   cli_stash, autocomplete_list>>

\* The head of the setImmediate queue is the deferred write of a line.
LineIsNext == Len(immediates) > 0 /\ Head(immediates) \in Lines

\* The texts typed before enter: nothing, a command to evaluate, and cls.
EnteredTexts == {<<>>, <<"a">>, CLS}

\* The program prints lines while the user types commands and enters them.
EnterNext ==
    \/ PushLine(TRUE)
    \/ LineIsNext /\ DeferAndRenderLine
    \/ \E value \in EnteredTexts, popup \in BOOLEAN : TypeKey(value, popup)
    \/ \E item \in CliTexts, printed \in 0..MaxPrinted, throws \in BOOLEAN :
           EnterKey(item, printed, throws)
    \/ RunCliCallback

EnterSpec == Init /\ [][EnterNext]_vars

\* The user types, enters commands and moves through the cli history.
HistoryNext ==
    \/ \E value \in CliTexts, popup \in BOOLEAN : TypeKey(value, popup)
    \/ \E name \in {"up", "down", "escape"} : CodeKey(name)
    \/ \E item \in CliTexts : EnterKey(item, 0, FALSE)
    \/ RunCliCallback

HistorySpec == Init /\ [][HistoryNext]_vars

\* Every operation, in runs that create at most MaxFairLines lines.
FairNext ==
    \/ nextId <= MaxFairLines /\ \E defer \in BOOLEAN : PushLine(defer)
    \/ DeferAndRenderLine
    \/ nextId <= MaxFairLines /\ \E k \in 0..(MaxLines - 1) : InsertAfter(k)
    \/ nextId <= MaxFairLines
          /\ \E p \in Lines, k \in 0..(MaxLines - 1) : InsertChild(p, k)
    \/ \E i \in 0..Len(list) : RemoveLine(i)
    \/ \E s \in IndexSeqs : ClearLines(s)
    \/ ClearScreen
    \/ \E i \in 0..Len(list) : Click(i)
    \/ Redraw

\* The event loop calls the callback at the head of the setImmediate queue;
\* deferAndRenderLine is the only callback the queue holds.
RunImmediate == Len(immediates) > 0 /\ immediates' = Tail(immediates)

\* The event loop runs every callback it holds: a pending timeout fires and
\* a queued setImmediate callback is called.
FairSpec ==
    Init /\ [][FairNext]_vars /\ WF_vars(Redraw) /\ WF_immediates(RunImmediate)

\* ------------------------------------------------------------ properties

\* s without the elements at the 0-based positions in S, order kept.
RECURSIVE Without(_, _, _)
Without(s, S, i) ==
    IF Len(s) = 0 THEN <<>>
    ELSE (IF i \in S THEN <<>> ELSE <<Head(s)>>) \o Without(Tail(s), S, i + 1)

\* C1: after every completed operation, position i of the list holds a
\* line whose index is i: indices run from 0 without gap or duplicate.
IndexContiguous ==
    /\ \A i \in 1..Len(list) : index[list[i]] = i - 1
    /\ \A i, j \in 1..Len(list) : i # j => list[i] # list[j]

\* Lines 2 and 3 survived the removal of line 1 in front of them.
IndexContiguousWitness ==
    /\ lastOp.op = "clearLines"
    /\ lastOp.at = 1
    /\ list = <<2, 3>>

\* C2: insertAfter(line, k) on a list of length N gives length N+1 with
\* line at position k+1 and line.index = k+1; every earlier entry with
\* index > k has its index raised by exactly 1, every other entry keeps its
\* index, and the earlier entries keep their order.
InsertAfterShifts ==
    [][(lastOp'.op \in {"insertAfter", "insertChild"} /\ nextId' = nextId + 1)
       => LET l == lastOp'.line
              k == lastOp'.at
          IN  /\ Len(list') = Len(list) + 1
              /\ list'[k + 2] = l
              /\ index'[l] = k + 1
              /\ \A m \in Range(list) :
                     index'[m] = IF index[m] > k THEN index[m] + 1 ELSE index[m]
              /\ SelectSeq(list', LAMBDA m : m # l) = list]_vars

\* A line was inserted between two lines of the list.
InsertAfterWitness ==
    /\ lastOp.op = "insertAfter"
    /\ Len(list) = 3
    /\ lastOp.at = 0
    /\ list[2] = lastOp.line
    /\ index[list[3]] = 2

SurfaceMatchesList ==
    /\ \A i \in 1..Len(list) :
           i <= Len(box) /\ box[i] = sanitize(Text(list[i]))
    /\ \A r \in 1..Len(box) : \A l \in Lines :
           box[r] = sanitize(Text(l)) => (r <= Len(list) /\ list[r] = l)

\* C5: whenever no deferred write is pending, every line of the list is on
\* the box row of its index and the box shows no removed or cleared line.
SurfaceInSyncWhenIdle == (Len(immediates) = 0) => SurfaceMatchesList

DeferredWriteInv ==
    /\ \A l \in Lines : writes[l] <= 1
    /\ \A i \in 1..Len(immediates) :
           /\ writes[immediates[i]] = 0
           /\ \A j \in 1..Len(immediates) :
                  i # j => immediates[i] # immediates[j]
    /\ (lastOp.op = "pushLineDeferred")
          => (writes[lastOp.line] = 0 /\ lastOp.line \in Range(immediates))
    /\ (lastOp.op = "deferAndRenderLine")
          => (writes[lastOp.line] = 1 /\ timers >= 1 /\ burst >= 1)

AtMostOneSelected == Cardinality({l \in Lines : selected[l]}) <= 1

\* A click moved the selection from one line to another.
SelectionMovedWitness ==
    /\ lastOp.op = "click"
    /\ lastOp.line # NoLine
    /\ lastOp.at # NoLine
    /\ lastOp.at # lastOp.line
    /\ selected[lastOp.line]
    /\ ~selected[lastOp.at]

\* C10 as stated: after clearScreen() the line that was selected is
\* unselected, the list is empty and the box content is cleared.
ClearScreenUnselects ==
    (lastOp.op = "clearScreen")
       => /\ (lastOp.line # NoLine => ~selected[lastOp.line])
          /\ list = <<>>
          /\ box = BoxSetContent(<<>>)

\* C11: click(i) on a line of the list selects that line, unselects the
\* line that held the selection before, and requests exactly one render;
\* click(i) where the list has no line changes nothing and requests no
\* render.
ClickSelectsOrNothing ==
    [][\A i \in 0..Len(list) :
         Click(i)
         => IF i < Len(list)
            THEN LET l == list[i + 1]
                 IN  /\ selected'[l]
                     /\ selectedLine' = l
                     /\ (selectedLine # NoLine /\ selectedLine # l)
                           => ~selected'[selectedLine]
                     /\ timers' = 1
                     /\ burst' = Min(burst + 1, MaxBurst)
                     /\ UNCHANGED <<list, index, box, childBase>>
            ELSE UNCHANGED vars]_vars

\* With no redraw pending, a click on the second line took the selection
\* from the first line and left one render requested.
ClickWitness ==
    /\ lastOp.op = "click"
    /\ lastOp.line = 2
    /\ lastOp.at = 1
    /\ selected[2]
    /\ ~selected[1]
    /\ selectedLine = 2
    /\ burst = 1
    /\ timers = 1

\* C12 as stated: after insertAfter(line, afterIndex) with an afterIndex the
\* list does not have, the line is in no position of the list, has no index
\* and is on no row of the box.
InsertAfterInvalidRejected ==
    (lastOp.op = "insertAfterInvalid")
       => /\ lastOp.line \notin Range(list)
          /\ index[lastOp.line] = NoIndex
          /\ \A r \in 1..Len(box) : box[r] # sanitize(Text(lastOp.line))

\* C13: removeLine(index) for an index at which the list has no line leaves
\* the list, every line's index, the box, the children and the selection
\* unchanged and requests no render.
RemoveMissingIsNoOp ==
    [][\A i \in {-1, Len(list)} :
         RemoveMissing(i)
         => UNCHANGED <<list, index, box, children, selected, selectedLine,
                        childBase, immediates, timers, burst>>]_vars

\* removeLine was called one past the last of two lines, one of them
\* selected, and no render is pending after it.
RemoveMissingWitness ==
    /\ lastOp.op = "removeLineMissing"
    /\ lastOp.at = 2
    /\ list = <<1, 2>>
    /\ selectedLine = 1
    /\ selected[1]
    /\ timers = 0
    /\ burst = 0

\* C14 as stated: clearScreen() on an empty list writes nothing to the box,
\* requests no render and leaves the state unchanged.
ClearScreenOnEmptyIsNoOp ==
    [][(list = <<>> /\ ClearScreen)
       => UNCHANGED <<list, index, selected, selectedLine, box, timers,
                      burst>>]_vars

\* C14: clearScreen() on an empty list leaves the list empty and the lines'
\* indices and the selection unchanged, sets the box content to the empty
\* content and requests one render.
ClearScreenOnEmptyRenders ==
    [][(list = <<>> /\ ClearScreen)
       => /\ list' = <<>>
          /\ UNCHANGED <<index, selected, selectedLine, childBase>>
          /\ box' = BoxSetContent(<<>>)
          /\ timers' = 1
          /\ burst' = Min(burst + 1, MaxBurst)]_vars

\* clearScreen() was called before any line was written: the placeholder
\* row of the box is gone and a render is pending.
ClearScreenOnEmptyWitness ==
    /\ lastOp.op = "clearScreen"
    /\ lastOp.at = 0
    /\ nextId = 1
    /\ box = << <<>> >>
    /\ timers = 1
    /\ burst = 1

\* The scroll base one line further down, as far as the content goes.
Advanced(bx, base) == Min(base + 1, Max(Len(bx) - BoxHeight, 0))

\* C15 as stated: scrollAlong(flag) advances the viewport by one line and
\* requests a render when scrollDown is on and the user has not scrolled
\* manually; in every other case the viewport stays and a render is
\* requested exactly when the flag allows it.
ScrollAlongRendersOnlyIfFlag ==
    [][\A f \in BOOLEAN :
         (burst < MaxBurst /\ ScrollAlong(f))
         => IF scrollDown /\ ~scrolledManually
            THEN /\ childBase' = Advanced(box, childBase)
                 /\ burst' = burst + 1
            ELSE /\ childBase' = childBase
                 /\ burst' = IF f THEN burst + 1 ELSE burst]_vars

\* C15: scrollAlong(flag) advances the viewport by one line exactly when
\* scrollDown is on and the user has not scrolled manually, and requests
\* one render when scrollDown is on, whatever the flag and the manual
\* scroll; with scrollDown off the viewport stays and a render is requested
\* exactly when the flag allows it.
ScrollAlongFollowsAndRenders ==
    [][\A f \in BOOLEAN :
         (burst < MaxBurst /\ ScrollAlong(f))
         => /\ childBase' = IF scrollDown /\ ~scrolledManually
                            THEN Advanced(box, childBase) ELSE childBase
            /\ burst' = IF scrollDown \/ f THEN burst + 1 ELSE burst
            /\ timers' = IF scrollDown \/ f THEN 1 ELSE timers
            /\ UNCHANGED <<list, index, box, scrollDown,
                           scrolledManually>>]_vars

\* scrollAlong(false) was called with scrollDown on after the user had
\* scrolled away from the tail of three lines: the viewport stayed at the
\* top and a render is pending.
ScrollAlongWitness ==
    /\ lastOp.op = "scrollAlong"
    /\ lastOp.at = 0
    /\ scrollDown
    /\ scrolledManually
    /\ Len(box) = 3
    /\ childBase = 0
    /\ timers = 1
    /\ burst = 1

\* C16 as stated: after a wheel event or a page key on a content longer
\* than the box, scrolledManually is true if and only if the scroll
\* percentage of the box is not 100.
ManualFlagAfterUserScroll ==
    (lastOp.op \in {"wheelup", "wheeldown", "pageup", "pagedown"}
        /\ Len(box) > BoxHeight)
       => (scrolledManually <=> BoxScrollPerc(box, childBase) # 100)

\* C17 as stated: after scroll(direction) for a page key, the viewport is
\* where it was when the move left the scroll percentage unchanged, and is
\* moved by the box's scroll of direction lines otherwise.
ScrollRevertsAtEdge ==
    (lastOp.op \in {"pageup", "pagedown"})
       => LET before    == lastOp.at
              direction == IF lastOp.op = "pagedown"
                           THEN PageStep ELSE 0 - PageStep
              moved     == BoxScroll(box, before, direction)
          IN  childBase = IF BoxScrollPerc(box, moved)
                             = BoxScrollPerc(box, before)
                          THEN before ELSE moved

\* The rows of pieces laid end to end.
RECURSIVE Flatten(_)
Flatten(pieces) ==
    IF Len(pieces) = 0 THEN <<>> ELSE Head(pieces) \o Flatten(Tail(pieces))

\* str with every line break replaced by the characters of by.
Replaced(str, by) ==
    Flatten([i \in 1..Len(str) |-> IF str[i] = NL THEN by ELSE <<str[i]>>])

\* C18 as stated: sanitize(s) is s with each line break replaced by the one
\* marker character.
SanitizeSingleMarker ==
    (lastOp.op = "sanitize") => output = Replaced(input, <<MARKER>>)

\* C18: sanitize(s) is s with each line break replaced by the marker
\* character followed by a space: the result holds no line break, holds
\* the marker when s held a line break, and is s when s holds none.
SanitizeMarkerAndSpace ==
    (lastOp.op = "sanitize")
       => /\ output = Replaced(input, <<MARKER, " ">>)
          /\ NL \notin Range(output)
          /\ (NL \in Range(input)) => (MARKER \in Range(output))
          /\ (NL \notin Range(input)) => (output = input)

\* A string with a line break between two letters was sanitized.
SanitizeWitness ==
    /\ lastOp.op = "sanitize"
    /\ input = <<"a", NL, "a">>
    /\ output = <<"a", MARKER, " ", "a">>

\* str holds an escape sequence somewhere.
HasEscape(str) ==
    \E i \in 1..Len(str) : EscMatch(SubSeq(str, i, Len(str))) > 0

\* C19: for every numeric code, every end code and every text that holds no
\* escape sequence, stripEsc(esc(code, text, endcode)) is the text, also
\* when the text was wrapped by an esc call of its own.
StripEscRoundTrip ==
    (lastOp.op = "stripEsc" /\ ~HasEscape(input.text))
       => output = input.text

\* A text of the characters of an escape sequence, wrapped twice with a
\* two-part code, came back as it was.
StripEscWitness ==
    /\ lastOp.op = "stripEsc"
    /\ input.code = <<"3", ";", "3">>
    /\ input.nested
    /\ input.text = <<"[", "3", "m">>
    /\ output = <<"[", "3", "m">>

\* C20 as stated, for indent called the way print calls it (a coloured
\* text that starts with its prefix, skipFirstLine set): every row indent
\* returns has a visible length of at most the terminal width, every row
\* after the first starts with as many spaces as the prefix is wide, and
\* the first row is the unpadded start of the text.
IndentFitsWidth ==
    (/\ lastOp.op = "indent"
     /\ ~output.thrown
     /\ input.colours
     /\ input.skipFirstLine)
       => LET pad == Len(stripEsc(input.skipText))
          IN  /\ \A r \in 1..Len(output.rows) :
                     Len(stripEsc(output.rows[r])) <= consoleWidth
              /\ \A r \in 2..Len(output.rows) :
                     /\ Len(output.rows[r]) >= pad
                     /\ SubSeq(output.rows[r], 1, pad) = multiply(" ", pad)
              /\ Len(output.rows[1]) <= Len(IndentText)
              /\ output.rows[1] = SubSeq(IndentText, 1, Len(output.rows[1]))

\* The line without what stands before the word at, as extractLineInfo
\* cuts it.
Clean(caller_line) ==
    SubstringFrom(caller_line, indexOf(caller_line, <<"a", "t", " ">>) + 2)

IsPrefix(p, str) == Len(p) <= Len(str) /\ SubSeq(str, 1, Len(p)) = p

AllDigits(str) == \A k \in 1..Len(str) : str[k] \in Digits

\* The names a line can give its function: what follows the first space
\* of the cut line, or anonymous.
NamesIn(caller_line) ==
    {ANONYMOUS} \cup {SubSeq(Clean(caller_line), 2, b) :
                         b \in 1..Len(Clean(caller_line))}

\* What extractLineInfo must return for a line, by the pattern it matches.
ParsedInOrder(caller_line, o) ==
    LET clean == Clean(caller_line)
    IN  /\ AllDigits(o.line) \/ o.line = UNKNOWN
        /\ AllDigits(o.char) \/ o.char = UNKNOWN
        /\ o.file = LastSegment(o.path)
        /\ IF StrictExec(clean).ok
           THEN IsPrefix(<<" ">> \o o.name \o <<" ", "(">> \o o.path
                            \o <<":">> \o o.line \o <<":">> \o o.char
                            \o <<")">>, clean)
           ELSE IF LooseExec(clean).ok
                THEN /\ o.name = ANONYMOUS
                     /\ IsPrefix(o.path \o <<":">> \o o.line \o <<":">>
                                    \o o.char, clean)
                ELSE /\ o.name = ANONYMOUS
                     /\ o.path = UNKNOWN
                     /\ o.line = UNKNOWN
                     /\ o.char = UNKNOWN

\* C21 as stated, for a line that matches neither pattern: every field,
\* the function too, is the placeholder.
StackNeitherAllPlaceholder ==
    (/\ lastOp.op = "extractLineInfo"
     /\ ~StrictExec(Clean(input.caller_line)).ok
     /\ ~LooseExec(Clean(input.caller_line)).ok)
       => /\ output.name = UNKNOWN
          /\ output.path = UNKNOWN
          /\ output.line = UNKNOWN
          /\ output.char = UNKNOWN

\* C21: a stack line is parsed in the order strict, loose, placeholder: a
\* line that matches the strict pattern yields its function, file, line and
\* column; one that matches only the loose pattern yields file, line and
\* column and the function anonymous; one that matches neither yields the
\* placeholder for file, line and column and the function anonymous; and
\* getCallerInfo returns a result for every stack text, the empty one and
\* one shorter than the level included: the place of the caller's line
\* under the name of the error, with one parsed frame for every line after
\* the first.
StackParsedInOrder ==
    /\ (lastOp.op = "extractLineInfo")
          => ParsedInOrder(input.caller_line, output)
    /\ (lastOp.op \in {"getCallerInfo", "getCallerInfoAgain"})
          => LET ar  == SplitRow(input.err.stack, <<>>)
                 lvl == input.level + SkippedFrames
             IN  /\ output.type = "callerInfo"
                 /\ output.text = input.err.stack
                 /\ Len(output.stack) = Len(ar) - 1
                 /\ \A i \in 1..Len(output.stack) :
                        ParsedInOrder(ar[i + 1], output.stack[i])
                 /\ output.name = input.err.name
                 /\ \E i \in 1..Len(ar) :
                        /\ \E nm \in NamesIn(ar[i]) :
                               ParsedInOrder(ar[i],
                                             [output EXCEPT !.name = nm])
                        /\ (lvl < Len(ar) /\ ar[lvl + 1] # <<>>)
                              => i = lvl + 1

\* getCallerInfo got a stack text of three lines, too short for the level:
\* the caller is taken from the last line, which matches the strict
\* pattern, while the line before it matches neither pattern.
StackParsedWitness ==
    /\ lastOp.op = "getCallerInfo"
    /\ Len(SplitRow(input.err.stack, <<>>)) = 3
    /\ Len(output.stack) = 2
    /\ output.stack[1].name = ANONYMOUS
    /\ output.stack[1].path = UNKNOWN
    /\ output.stack[2].name = <<"f">>
    /\ output.name = ERROR
    /\ output.path = <<"/", "f">>
    /\ output.file = <<"f">>
    /\ output.line = <<"3">>
    /\ output.char = <<"0">>

\* C22 as stated: after removeLine or clearScreen the selectedLine of the
\* LogList is null or a line of the list.
SelectedLineInList ==
    (lastOp.op \in {"removeLine", "clearScreen"})
       => (selectedLine = NoLine \/ selectedLine \in Range(list))

\* C23 as stated: once a call of start has made the screen and the
\* LogList, a later call of start makes no screen and no LogList and
\* replaces no function of the console or of the streams; it reports that
\* Janeway can not start twice and registers its callback for ready.
StartTwiceDoesNothing ==
    [][\A callback \in BOOLEAN :
         (logLists >= 1 /\ Start(callback))
         => /\ logLists' = logLists
            /\ hijacks' = hijacks
            /\ lastOp'.op = "startTwice"
            /\ readyOnce' = readyOnce + (IF callback THEN 1 ELSE 0)]_vars

\* C26 as stated, for calls in which indent returns: a call of print
\* returns after exactly one output, a line appended to the list with its
\* write deferred when a LogList exists and one write to the original
\* console otherwise, and print is not called from within print until the
\* call stack is full.
OnePrintOneOutput ==
    /\ (lastOp.op = "print")
          => /\ lastOp.at = 1
             /\ printDepth = 0
             /\ IF lastOp.line # NoLine
                THEN logLists > 0 /\ lastOp.line \in Range(immediates)
                ELSE logLists = 0
    /\ lastOp.op # "printOverflow"

\* What the enter key leaves in the list for a command that is evaluated
\* and prints `printed` lines: the lines the list held, the line of the
\* command at the end of them, the one line of the result right after it,
\* and after that the printed lines, their writes still deferred.
EnterGained(printed) ==
    LET commandLine == nextId
        resultLine  == nextId + 1 + printed
    IN  /\ Len(list') = Len(list) + 2 + printed
        /\ SubSeq(list', 1, Len(list)) = list
        /\ index'[commandLine] = Len(list)
        /\ list'[index'[commandLine] + 1] = commandLine
        /\ list'[index'[commandLine] + 2] = resultLine
        /\ index'[resultLine] = index'[commandLine] + 1
        /\ Cardinality({k \in 1..Len(list') : list'[k] = resultLine}) = 1
        /\ \A k \in 1..printed :
               /\ list'[index'[commandLine] + 2 + k] = nextId + k
               /\ index'[nextId + k] = index'[commandLine] + 1 + k
               /\ (nextId + k) \in Range(immediates')

\* C24 as stated: on enter with a command that is not empty, not cls and
\* not exit, the list gains the line of the command and exactly one line
\* of the result, and the result is at list[commandLine.index + 1], also
\* when lines were printed during the evaluation or wait for their
\* deferred write.
EnterAlwaysEvaluates ==
    [][\A item \in CliTexts, printed \in 0..MaxPrinted, throws \in BOOLEAN :
         (EnterKey(item, printed, throws) /\ Trim(cli) \notin {<<>>, CLS})
         => EnterGained(printed)]_vars

\* C24: on enter while the autocomplete popup is closed, with a command
\* that is not empty, not cls and not exit, the list gains the line of the
\* command and exactly one line of the result, and the result is at
\* list[commandLine.index + 1], also when lines were printed during the
\* evaluation or wait for their deferred write.
EnterEvaluatesWhenPopupClosed ==
    [][\A item \in CliTexts, printed \in 0..MaxPrinted, throws \in BOOLEAN :
         (/\ EnterKey(item, printed, throws)
          /\ ~autocomplete_list
          /\ Trim(cli) \notin {<<>>, CLS})
         => EnterGained(printed)]_vars

\* A command was entered and evaluated: it is line 1, it printed line 2
\* while it was evaluated, and its result, line 3, stands between the two
\* while the write of line 2 is still deferred.
EnterWitness ==
    /\ lastOp.op = "enter"
    /\ lastOp.line = 1
    /\ lastOp.at = 3
    /\ list = <<1, 3, 2>>
    /\ index[3] = index[1] + 1
    /\ 2 \in Range(immediates)
    /\ writes[2] = 0

\* C25 as stated: when up and down have followed each other from a cli
\* that held the text t at cli_history_index -1, and the index is -1
\* again, the cli holds t, the empty t included; and cli_history_index is
\* at least -1 and at most cli_history.length - 1.
HistoryRoundTrip ==
    /\ cli_history_index >= -1
    /\ cli_history_index <= Len(cli_history) - 1
    /\ (/\ lastOp.op \in {"up", "down"}
        /\ lastOp.at.known
        /\ cli_history_index = -1)
          => cli = lastOp.at.t

====
